---------------------------- MODULE Spec2Model ----------------------------
(***************************************************************************)
(* Client-side data synchronisation of the warehouse-inventory front-end:  *)
(* the shared list hook useGet (query key, query function, mutable URL),   *)
(* the query cache and observer it is run by, the per-entity mutation      *)
(* hooks with their cache invalidation, and the row save / delete handlers *)
(* of the entity tables.                                                   *)
(***************************************************************************)
EXTENDS Integers, Sequences, FiniteSets, TLC

(***************************************************************************)
(* Bounds of the exploration.                                              *)
(***************************************************************************)
\* table events (descriptor changes, window focus) per run
MaxChanges == 2
\* largest page index the pagination control is moved to
MaxPageIndex == 1
\* mutation requests dispatched per run
MaxMutations == 2
\* rows the server holds when the table is mounted
InitialRows == 2
\* report requests in flight at a time
MaxReports == 1
\* rows of a report
MaxReportRows == 2
\* records of a lookup collection
MaxLookupKeys == 3

(***************************************************************************)
(* Values.  A text is a sequence of characters; a nullable argument is an  *)
(* option record.                                                          *)
(***************************************************************************)
Null == [null |-> TRUE, val |-> <<>>]
Some(v) == [null |-> FALSE, val |-> v]
\* x ?? d
OrElse(x, d) == IF x.null THEN d ELSE x.val

Whitespace == {" "}

RECURSIVE TrimStart(_)
TrimStart(s) ==
    IF s # <<>> /\ Head(s) \in Whitespace THEN TrimStart(Tail(s)) ELSE s

RECURSIVE TrimEnd(_)
TrimEnd(s) ==
    IF s # <<>> /\ s[Len(s)] \in Whitespace
    THEN TrimEnd(SubSeq(s, 1, Len(s) - 1))
    ELSE s

\* String.prototype.trim
Trim(s) == TrimEnd(TrimStart(s))

\* JSON.stringify of the values the table state holds
JsonString(s) == "\"" \o s \o "\""
JsonBool(b) == IF b THEN "true" ELSE "false"
JsonSort(o) == "{\"id\":" \o JsonString(o.id) \o ",\"desc\":" \o JsonBool(o.desc) \o "}"
JsonFilter(o) == "{\"id\":" \o JsonString(o.id) \o ",\"value\":" \o JsonString(o.value) \o "}"

\* Array.prototype.join(",") of the stringified items
RECURSIVE JoinComma(_)
JoinComma(strs) ==
    IF strs = <<>> THEN ""
    ELSE IF Len(strs) = 1 THEN strs[1]
    ELSE strs[1] \o "," \o JoinComma(Tail(strs))

JsonArray(items, Obj(_)) ==
    "[" \o JoinComma([i \in 1..Len(items) |-> Obj(items[i])]) \o "]"

(***************************************************************************)
(* The entity tables.                                                      *)
(***************************************************************************)
Entities ==
    {"warehouses", "employees", "positions", "products", "products_income",
     "income_notes", "products_outcome", "outcome_notes"}

\* the column each table sorts by when mounted
InitialSortId(e) ==
    CASE e = "warehouses" -> "warehouse_id"
      [] e = "employees" -> "inn"
      [] e = "positions" -> "position_id"
      [] e = "products" -> "product_id"
      [] OTHER -> "id"

InitialSorting(e) == << [id |-> InitialSortId(e), desc |-> FALSE] >>

InitialPageSize == 10
InitialPagination == [pageIndex |-> 0, pageSize |-> InitialPageSize]

\* the views App renders: the eight tables and the report screen
Views == Entities \cup {"report"}

\* const queryClient = new QueryClient() at the top level of App
AppQueryClient == << "queryClient", "App" >>

\* const queryClient = new QueryClient() at the top level of the module of
\* the table of entity e
ModuleQueryClient(e) == << "queryClient", e >>

\* the clients of the QueryClientProviders around view, outermost first: the
\* provider of App, and inside it the provider each table module wraps its
\* table in
Providers(view) ==
    IF view \in Entities
    THEN << AppQueryClient, ModuleQueryClient(view) >>
    ELSE << AppQueryClient >>

\* useQueryClient() and the client of useQuery: that of the nearest provider
useQueryClient(view) == Providers(view)[Len(Providers(view))]

\* the query key each table's mutation hooks hand to invalidateQueries
InvalidationKey(e) ==
    CASE e = "products_income" -> << "productsIncome" >>
      [] e = "products_outcome" -> << "productsOutcome" >>
      [] OTHER -> << e >>

(***************************************************************************)
(* Row values and the validators of the entity tables.  Text fields are    *)
(* strings, ids and quantities naturals (0 when missing), money amounts    *)
(* decimals counted in thousandths, inn and phone number lists of          *)
(* characters.  The messages stand for the Russian texts of the source.    *)
(***************************************************************************)
NoAmount == [kind |-> "null", milli |-> 0]
NaN == [kind |-> "nan", milli |-> 0]
Amount(milli) == [kind |-> "num", milli |-> milli]

\* !x for a number or null
NotAmount(x) == x.kind # "num" \/ x.milli = 0

\* isNaN(x) || !Number.isInteger(x * 100), x not null
NotTwoDecimals(x) == x.kind = "nan" \/ (x.milli * 100) % 1000 # 0

Digits == {"0", "1", "2", "3", "4", "5", "6", "7", "8", "9"}

\* /^\d{n}$/.test(s)
IsDigits(s, n) == Len(s) = n /\ \A i \in 1..n : s[i] \in Digits

Repeat(c, n) == [i \in 1..n |-> c]

NoErrors == [f \in {} |-> ""]

\* errors.field = message when the condition holds
ErrorIf(cond, field, message) == IF cond THEN field :> message ELSE NoErrors

validateProduct(product) ==
    [product_name |-> IF product.product_name = "" THEN "product_name required" ELSE "",
     supplier |-> IF product.supplier = "" THEN "supplier required" ELSE "",
     item_number |-> IF product.item_number = "" THEN "item_number required" ELSE ""]

validateWarehouse(warehouse) ==
    ErrorIf(warehouse.warehouse_name = "", "warehouse_name", "warehouse_name required")
    @@ ErrorIf(warehouse.address = "", "address", "address required")

\* validateEmployee without its phone_number branch
validateEmployee_PhoneUnchecked(employee) ==
    ErrorIf(employee.inn = <<>> \/ ~IsDigits(employee.inn, 12), "inn", "inn must be 12 digits")
    @@ ErrorIf(employee.warehouse_id = 0, "warehouse_id", "warehouse required")
    @@ ErrorIf(employee.position_id = 0, "position_id", "position required")
    @@ ErrorIf(employee.employee_name = "", "employee_name", "employee_name required")

validateEmployee(employee) ==
    ErrorIf(employee.inn = <<>> \/ ~IsDigits(employee.inn, 12), "inn", "inn must be 12 digits")
    @@ ErrorIf(employee.warehouse_id = 0, "warehouse_id", "warehouse required")
    @@ ErrorIf(employee.position_id = 0, "position_id", "position required")
    @@ ErrorIf(employee.employee_name = "", "employee_name", "employee_name required")
    @@ ErrorIf(employee.phone_number # <<>> /\ ~IsDigits(employee.phone_number, 11),
               "phone_number", "phone_number must be 11 digits")

validatePosition(position) ==
    ErrorIf(position.position_name = "", "position_name", "position_name required")
    @@ ErrorIf(position.salary.kind # "null" /\ NotTwoDecimals(position.salary),
               "salary", "")

validateProductsIncome(productsIncome) ==
    ErrorIf(productsIncome.income_note_id = 0, "income_note_id", "income_note_id required")
    @@ ErrorIf(productsIncome.warehouse_id = 0, "warehouse_id", "warehouse required")
    @@ ErrorIf(productsIncome.contractor = "", "contractor", "contractor required")
    @@ ErrorIf(NotAmount(productsIncome.total), "total", "total required")
    @@ ErrorIf(~NotAmount(productsIncome.total) /\ NotTwoDecimals(productsIncome.total),
               "total", "")
    @@ ErrorIf(productsIncome.date = "", "date", "date required")

validateProductsOutcome(productsOutcome) ==
    ErrorIf(productsOutcome.outcome_note_id = 0, "outcome_note_id", "outcome_note_id required")
    @@ ErrorIf(productsOutcome.warehouse_id = 0, "warehouse_id", "warehouse required")
    @@ ErrorIf(productsOutcome.contractor = "", "contractor", "contractor required")
    @@ ErrorIf(NotAmount(productsOutcome.total), "total", "total required")
    @@ ErrorIf(~NotAmount(productsOutcome.total) /\ NotTwoDecimals(productsOutcome.total),
               "total", "")
    @@ ErrorIf(productsOutcome.date = "", "date", "date required")

validateIncomeNote(incomeNote) ==
    ErrorIf(incomeNote.item_number = "", "item_number", "item_number required")
    @@ ErrorIf(incomeNote.price = 0, "price", "price required")
    @@ ErrorIf(incomeNote.quantity = 0, "quantity", "quantity required")
    @@ ErrorIf(incomeNote.total = 0, "total", "total required")
    @@ ErrorIf(incomeNote.income_note_id = 0, "income_note_id", "income_note_id required")

validateOutcomeNote(outcomeNote) ==
    ErrorIf(outcomeNote.item_number = "", "item_number", "item_number required")
    @@ ErrorIf(outcomeNote.price = 0, "price", "price required")
    @@ ErrorIf(outcomeNote.quantity = 0, "quantity", "quantity required")
    @@ ErrorIf(outcomeNote.total = 0, "total", "total required")
    @@ ErrorIf(outcomeNote.outcome_note_id = 0, "outcome_note_id", "outcome_note_id required")

\* the validator each table's save handlers call
validate(e, values) ==
    CASE e = "warehouses" -> validateWarehouse(values)
      [] e = "employees" -> validateEmployee(values)
      [] e = "positions" -> validatePosition(values)
      [] e = "products" -> validateProduct(values)
      [] e = "products_income" -> validateProductsIncome(values)
      [] e = "income_notes" -> validateIncomeNote(values)
      [] e = "products_outcome" -> validateProductsOutcome(values)
      [] e = "outcome_notes" -> validateOutcomeNote(values)

\* the validation result ignored
SomeError_Never(errors) == FALSE

\* Object.values(errors).some((error) => error)
SomeError(errors) == \E f \in DOMAIN errors : errors[f] # ""

\* what the user can have typed into the cells of the row being saved
WarehouseValues ==
    {[warehouse_name |-> "Main", address |-> "Dock 1"],
     [warehouse_name |-> "", address |-> "Dock 1"],
     [warehouse_name |-> "", address |-> ""]}

EmployeeValues ==
    LET ok == [inn |-> Repeat("7", 12), warehouse_id |-> 1, position_id |-> 1,
               employee_name |-> "Ann", phone_number |-> Repeat("9", 11)]
    IN  {ok,
         [ok EXCEPT !.phone_number = <<>>],
         [ok EXCEPT !.phone_number = <<"9", "x">>],
         [ok EXCEPT !.inn = Repeat("7", 11)],
         [inn |-> <<>>, warehouse_id |-> 0, position_id |-> 0,
          employee_name |-> "", phone_number |-> <<>>]}

PositionValues ==
    {[position_name |-> "Clerk", salary |-> NoAmount],
     [position_name |-> "Clerk", salary |-> Amount(1500)],
     [position_name |-> "Clerk", salary |-> Amount(125)],
     [position_name |-> "Clerk", salary |-> NaN],
     [position_name |-> "", salary |-> NoAmount]}

ProductValues ==
    {[product_name |-> "Nail", supplier |-> "Acme", item_number |-> "N-1"],
     [product_name |-> "", supplier |-> "Acme", item_number |-> "N-1"],
     [product_name |-> "", supplier |-> "", item_number |-> ""]}

ProductsIncomeValues ==
    LET ok == [income_note_id |-> 1, warehouse_id |-> 1, contractor |-> "Acme",
               total |-> Amount(1500), date |-> "2024-01-31"]
    IN  {ok,
         [ok EXCEPT !.total = Amount(125)],
         [ok EXCEPT !.total = Amount(0)],
         [ok EXCEPT !.total = NaN, !.date = ""],
         [ok EXCEPT !.income_note_id = 0, !.warehouse_id = 0, !.contractor = ""]}

ProductsOutcomeValues ==
    LET ok == [outcome_note_id |-> 1, warehouse_id |-> 1, contractor |-> "Acme",
               total |-> Amount(1500), date |-> "2024-01-31"]
    IN  {ok,
         [ok EXCEPT !.total = Amount(125)],
         [ok EXCEPT !.total = Amount(0)],
         [ok EXCEPT !.total = NaN, !.date = ""],
         [ok EXCEPT !.outcome_note_id = 0, !.warehouse_id = 0, !.contractor = ""]}

IncomeNoteValues ==
    {[item_number |-> "N-1", price |-> 5, quantity |-> 2, total |-> 10, income_note_id |-> 1],
     [item_number |-> "", price |-> 5, quantity |-> 2, total |-> 10, income_note_id |-> 1],
     [item_number |-> "N-1", price |-> 0, quantity |-> 0, total |-> 0, income_note_id |-> 0]}

OutcomeNoteValues ==
    {[item_number |-> "N-1", price |-> 5, quantity |-> 2, total |-> 10, outcome_note_id |-> 1],
     [item_number |-> "", price |-> 5, quantity |-> 2, total |-> 10, outcome_note_id |-> 1],
     [item_number |-> "N-1", price |-> 0, quantity |-> 0, total |-> 0, outcome_note_id |-> 0]}

RowValues(e) ==
    CASE e = "warehouses" -> WarehouseValues
      [] e = "employees" -> EmployeeValues
      [] e = "positions" -> PositionValues
      [] e = "products" -> ProductValues
      [] e = "products_income" -> ProductsIncomeValues
      [] e = "income_notes" -> IncomeNoteValues
      [] e = "products_outcome" -> ProductsOutcomeValues
      [] e = "outcome_notes" -> OutcomeNoteValues

(***************************************************************************)
(* useGet: the query key and the query function.                           *)
(***************************************************************************)
\* the arguments a table passes to useGet (its state is never null)
UseGetArgs(p, cf, gf, s) ==
    [pagination |-> p, columnFilters |-> Some(cf), globalFilter |-> Some(gf),
     sorting |-> Some(s)]

queryKey(a) ==
    << "table-data", a.columnFilters, a.globalFilter, a.pagination.pageIndex,
       a.pagination.pageSize, a.sorting >>

\* URLSearchParams.set on the search parameters of a URL
SearchParamsSet(params, name, value) ==
    [n \in DOMAIN params \cup {name} |-> IF n = name THEN value ELSE params[n]]

\* globalFilter && globalFilter.trim() !== ''
HasGlobalFilter(gf) == ~gf.null /\ gf.val # <<>> /\ Trim(gf.val) # <<>>

\* start taken as the page index, the page size forgotten
StartParam_PageIndexOnly(p) == ToString(p.pageIndex)

StartParam(p) == ToString(p.pageIndex * p.pageSize)
SizeParam(p) == ToString(p.pageSize)
FiltersParam(cf) == JsonArray(OrElse(cf, <<>>), JsonFilter)
SortingParam(s) == JsonArray(OrElse(s, <<>>), JsonSort)
GlobalFilterParam(gf) == <<"%">> \o gf.val \o <<"%">>

SetGlobalFilter(params, gf) ==
    IF HasGlobalFilter(gf)
    THEN SearchParamsSet(params, "globalFilter", GlobalFilterParam(gf))
    ELSE params

\* the search parameters of fetchURL (the caller's URL object itself) when
\* the query function reaches fetch(fetchURL.href)
queryFnParams(params, a) ==
    LET p1 == SearchParamsSet(params, "start", StartParam(a.pagination))
        p2 == SearchParamsSet(p1, "size", SizeParam(a.pagination))
        p3 == SearchParamsSet(p2, "filters", FiltersParam(a.columnFilters))
        p4 == SetGlobalFilter(p3, a.globalFilter)
    IN  SearchParamsSet(p4, "sorting", SortingParam(a.sorting))

\* the search parameters of a freshly constructed URL
NoParams == [n \in {} |-> ""]

(***************************************************************************)
(* State.                                                                  *)
(***************************************************************************)
VARIABLES
    entity,                    \* the entity table that is mounted
    pagination,                \* table state: { pageIndex, pageSize }
    columnFilters,             \* table state: list of { id, value }
    globalFilter,              \* table state: search text
    sorting,                   \* table state: list of { id, desc }
    url,                       \* search parameters of the module-level URL object
    queries,                   \* query cache: query key -> query state
    currentResult,             \* the result the table's query observer last produced
    lastQueryWithDefinedData,  \* the observer's last query that held data
    network,                   \* list requests in flight
    db,                        \* ids of the rows the server holds
    changes,                   \* descriptor changes made so far
    creatingRow,               \* whether the table has a draft row open
    editingRow,                \* id of the row being edited, 0 when none
    validationErrors,          \* component state: field -> message
    isFormOpen,                \* whether the compound-create form is open
    mutations,                 \* mutations whose request is in flight
    dispatched,                \* mutations dispatched so far
    settled,                   \* how the last settled mutation ended
    getArgs                    \* arguments useGet is called with directly

listVars ==
    << pagination, columnFilters, globalFilter, sorting, url, queries,
       currentResult, lastQueryWithDefinedData, network, changes >>

(***************************************************************************)
(* The REST server's list endpoint (section 6 of the specification).       *)
(***************************************************************************)
\* the text column of row i that filtering looks at
NameOf(i) == IF i % 2 = 1 THEN <<"a", "b">> ELSE <<"c", "d">>

Contains(s, t) ==
    \E i \in 0..(Len(s) - Len(t)) : SubSeq(s, i + 1, i + Len(t)) = t

\* SQL LIKE with a pattern of the form %text%
Like(s, pattern) == Contains(s, SubSeq(pattern, 2, Len(pattern) - 1))

MatchesRequest(i, params) ==
    /\ "globalFilter" \in DOMAIN params => Like(NameOf(i), params["globalFilter"])
    /\ params["filters"] # "[]" => Contains(NameOf(i), <<"a", "b">>)

RECURSIVE Ascending(_)
Ascending(ids) ==
    IF ids = {} THEN <<>>
    ELSE LET m == CHOOSE x \in ids : \A y \in ids : x <= y
         IN  <<m>> \o Ascending(ids \ {m})

Reverse(seq) == [i \in 1..Len(seq) |-> seq[Len(seq) + 1 - i]]

IsDescending(params) ==
    \E e \in Entities :
        params["sorting"] = JsonArray(<< [id |-> InitialSortId(e), desc |-> TRUE] >>, JsonSort)

\* the integer a decimal parameter denotes
ParseInt(str) == CHOOSE n \in 0..1000 : ToString(n) = str

Slice(seq, start, size) ==
    SubSeq(seq, start + 1, IF start + size < Len(seq) THEN start + size ELSE Len(seq))

NullNumber == [null |-> TRUE, val |-> 0]

\* { data: [...], meta: { totalRowCount } }
ListBody(rows, params) ==
    LET ids == {i \in rows : MatchesRequest(i, params)}
        asc == Ascending(ids)
        ordered == IF IsDescending(params) THEN Reverse(asc) ELSE asc
    IN  [data |-> Some(Slice(ordered, ParseInt(params["start"]), ParseInt(params["size"]))),
         meta |-> Some(Cardinality(ids))]

\* the JSON body of a non-2xx answer: an object without data and meta
ErrorBody == [data |-> Null, meta |-> NullNumber]

(***************************************************************************)
(* The query cache and the query observer that useQuery runs (as           *)
(* configured by useGet: no staleTime, placeholderData: keepPreviousData). *)
(***************************************************************************)
Request(a, params) == [key |-> queryKey(a), args |-> a, params |-> params]

NoRequest == Request(UseGetArgs(InitialPagination, <<>>, <<>>, <<>>), NoParams)

\* the value a query holds: the parsed body, and where it came from (the
\* request, the server's rows at the time, response.ok)
Data(body, req, rows, ok) ==
    [defined |-> TRUE, body |-> body, request |-> req, db |-> rows, ok |-> ok]
NoData ==
    [defined |-> FALSE, body |-> ErrorBody, request |-> NoRequest, db |-> {}, ok |-> FALSE]

NewQuery ==
    [data |-> NoData, status |-> "pending", fetchStatus |-> "idle",
     isInvalidated |-> FALSE]

NoKey == <<>>

\* QueryCache.build
Build(qs, k) ==
    IF k \in DOMAIN qs THEN qs
    ELSE [x \in DOMAIN qs \cup {k} |-> IF x = k THEN NewQuery ELSE qs[x]]

\* the 'fetch' transition of a query
FetchState(q) ==
    [q EXCEPT !.fetchStatus = "fetching",
              !.status = IF q.data.defined THEN q.status ELSE "pending"]

\* useQuery configured without placeholderData
keepPreviousData_Omitted(previousData) == NoData

\* keepPreviousData
keepPreviousData(previousData) == previousData

\* QueryObserver.createResult
createResult(q, prevResult, lastData) ==
    LET placeholderData ==
            IF prevResult.isPlaceholderData THEN prevResult.data
            ELSE keepPreviousData(lastData)
    IN  IF ~q.data.defined /\ q.status = "pending" /\ placeholderData.defined
        THEN [data |-> placeholderData, status |-> "success",
              fetchStatus |-> q.fetchStatus, isPlaceholderData |-> TRUE]
        ELSE [data |-> q.data, status |-> q.status,
              fetchStatus |-> q.fetchStatus, isPlaceholderData |-> FALSE]

NoResult ==
    [data |-> NoData, status |-> "pending", fetchStatus |-> "idle",
     isPlaceholderData |-> FALSE]

\* what useGet returns to the table
isFetching == currentResult.fetchStatus = "fetching"
isPending == currentResult.status = "pending"
isError == currentResult.status = "error"
isLoading == isPending /\ isFetching
isRefetching == isFetching /\ ~isPending

\* data: { data = [], meta } = {}
data == IF currentResult.data.defined THEN OrElse(currentResult.data.body.data, <<>>) ELSE <<>>
\* a row count taken from the rows of the page
rowCount_DataLength ==
    IF currentResult.data.defined
    THEN Len(OrElse(currentResult.data.body.data, <<>>))
    ELSE 0

\* meta?.totalRowCount ?? 0
rowCount == IF currentResult.data.defined THEN OrElse(currentResult.data.body.meta, 0) ELSE 0
showAlertBanner == isError
showProgressBars == isRefetching

CurrentArgs == UseGetArgs(pagination, columnFilters, globalFilter, sorting)
CurrentKey == queryKey(CurrentArgs)

LastData(qs) ==
    IF lastQueryWithDefinedData = NoKey THEN NoData
    ELSE qs[lastQueryWithDefinedData].data

\* the observer of the table is notified of the state of its query
Notify(qs, k, prevResult) ==
    /\ currentResult' = createResult(qs[k], prevResult, LastData(qs))
    /\ lastQueryWithDefinedData' =
           IF qs[k].data.defined THEN k ELSE lastQueryWithDefinedData

\* useGet with arguments a: the observer moves to the query of queryKey(a)
\* and fetches it unless a fetch of it is already running; the query
\* function writes into the shared URL object and issues the request
useGet(a, prevResult) ==
    LET k == queryKey(a)
        built == Build(queries, k)
        idle == built[k].fetchStatus = "idle"
        params == IF idle THEN queryFnParams(url, a) ELSE url
        qs == IF idle THEN [built EXCEPT ![k] = FetchState(@)] ELSE built
    IN  /\ queries' = qs
        /\ url' = params
        /\ network' = IF idle THEN network \cup {Request(a, params)} ELSE network
        /\ Notify(qs, k, prevResult)

\* a render of the table with new descriptor state
Rerender(p, cf, gf, s) ==
    /\ changes < MaxChanges
    /\ <<p, cf, gf, s>> # <<pagination, columnFilters, globalFilter, sorting>>
    /\ changes' = changes + 1
    /\ pagination' = p
    /\ columnFilters' = cf
    /\ globalFilter' = gf
    /\ sorting' = s
    /\ useGet(UseGetArgs(p, cf, gf, s), currentResult)

(***************************************************************************)
(* What the table widget can hand to the state setters.                    *)
(***************************************************************************)
PageSizes == {InitialPageSize, 2 * InitialPageSize}
GlobalFilterTexts == {<<>>, <<" ">>, <<"a", "b">>}
SortingStates(e) ==
    {InitialSorting(e), << [id |-> InitialSortId(e), desc |-> TRUE] >>, <<>>}
ColumnFilterStates == {<<>>, << [id |-> "name", value |-> "ab"] >>}

(***************************************************************************)
(* Operations of the list layer.                                           *)
(***************************************************************************)
crudVars ==
    << entity, db, creatingRow, editingRow, validationErrors, isFormOpen,
       mutations, dispatched, settled >>
getVars == << getArgs >>

\* the state of App (the selected tab and the browser's local storage) and of
\* the report screen
VARIABLES selectedOption, localStorage, effectPending,
          reportType, reportParams, reportData, reportRequests

\* the lookup collections of the table that is followed (employees,
\* warehouses, positions): the keys of their records
VARIABLES lookups

appVars == << selectedOption, localStorage, effectPending >>
reportVars == << reportType, reportParams, reportData, reportRequests >>
lookupVars == << lookups >>

\* the draft held by the compound-create form of the table that is followed:
\* the header fields (productsOutcome / productsIncome) and the line items
\* (outcomeNotes / incomeNotes)
VARIABLES formHeader, formNotes

formVars == << formHeader, formNotes >>
screenVars == << appVars, reportVars, lookupVars, formVars >>

\* the state of the table that is followed
tableVars ==
    << entity, pagination, columnFilters, globalFilter, sorting, url, queries,
       currentResult, lastQueryWithDefinedData, network, db, changes,
       creatingRow, editingRow, validationErrors, isFormOpen, mutations,
       dispatched, settled, getArgs, lookupVars, formVars >>

onPaginationChange ==
    /\ \E i \in 0..MaxPageIndex :
           Rerender([pagination EXCEPT !.pageIndex = i], columnFilters, globalFilter, sorting)
    /\ UNCHANGED << crudVars, getVars, screenVars >>

onSortingChange ==
    /\ \E s \in SortingStates(entity) :
           Rerender(pagination, columnFilters, globalFilter, s)
    /\ UNCHANGED << crudVars, getVars, screenVars >>

onColumnFiltersChange ==
    /\ \E cf \in ColumnFilterStates :
           Rerender(pagination, cf, globalFilter, sorting)
    /\ UNCHANGED << crudVars, getVars, screenVars >>

onGlobalFilterChange ==
    /\ \E gf \in GlobalFilterTexts :
           Rerender(pagination, columnFilters, gf, sorting)
    /\ UNCHANGED << crudVars, getVars, screenVars >>

\* the window regains focus: the observed query, always stale, is fetched again
WindowFocus ==
    /\ changes < MaxChanges
    /\ changes' = changes + 1
    /\ queries[CurrentKey].fetchStatus = "idle"
    /\ useGet(CurrentArgs, currentResult)
    /\ UNCHANGED << pagination, columnFilters, globalFilter, sorting,
                    crudVars, getVars, screenVars >>

\* a response written into whatever query the table observes now
Settle_IntoObserved(r, q) ==
    LET qs == [queries EXCEPT ![CurrentKey] = q]
    IN  /\ queries' = qs
        /\ network' = network \ {r}
        /\ Notify(qs, CurrentKey, currentResult)

\* a settled fetch of request r leaves its query in state q
Settle(r, q) ==
    LET qs == [queries EXCEPT ![r.key] = q]
    IN  /\ queries' = qs
        /\ network' = network \ {r}
        /\ IF r.key = CurrentKey
           THEN Notify(qs, CurrentKey, currentResult)
           ELSE UNCHANGED << currentResult, lastQueryWithDefinedData >>

SuccessState(q, d) ==
    [q EXCEPT !.data = d, !.status = "success", !.fetchStatus = "idle",
              !.isInvalidated = FALSE]

\* the server answers 2xx with a page; response.json() becomes the data
FetchOk ==
    /\ \E r \in network :
           Settle(r, SuccessState(queries[r.key], Data(ListBody(db, r.params), r, db, TRUE)))
    /\ UNCHANGED << pagination, columnFilters, globalFilter, sorting, url,
                    changes, crudVars, getVars, screenVars >>

\* the server answers non-2xx with a JSON body; the query function does not
\* look at response.ok, so response.json() becomes the data all the same
FetchHttpError ==
    /\ \E r \in network :
           Settle(r, SuccessState(queries[r.key], Data(ErrorBody, r, db, FALSE)))
    /\ UNCHANGED << pagination, columnFilters, globalFilter, sorting, url,
                    changes, crudVars, getVars, screenVars >>

\* fetch (or response.json()) rejects and the query, still observed, has a
\* retry left: its query function runs again
FetchRetry ==
    /\ \E r \in network :
           /\ r.key = CurrentKey
           /\ LET params == queryFnParams(url, r.args)
              IN  /\ url' = params
                  /\ network' = (network \ {r}) \cup {Request(r.args, params)}
    /\ UNCHANGED << pagination, columnFilters, globalFilter, sorting, queries,
                    currentResult, lastQueryWithDefinedData, changes, crudVars,
                    getVars, screenVars >>

\* fetch (or response.json()) rejects and no retry is left (none is made
\* for a query that lost its observer): the query fails, keeping its data
FetchNetworkError ==
    /\ \E r \in network :
           Settle(r, [queries[r.key] EXCEPT !.status = "error", !.fetchStatus = "idle"])
    /\ UNCHANGED << pagination, columnFilters, globalFilter, sorting, url,
                    changes, crudVars, getVars, screenVars >>

(***************************************************************************)
(* Row editing and the mutations of the entity tables.                     *)
(***************************************************************************)
descriptorVars == << pagination, columnFilters, globalFilter, sorting, changes >>
cacheVars == << url, queries, currentResult, lastQueryWithDefinedData, network >>

NoRow == 0

\* the ids of the rows the table displays
DisplayedRows == {data[i] : i \in 1..Len(data)}

\* the tables whose toolbar button opens the compound-create form instead of
\* a creating row
HasForm(e) == e \in {"products_income", "products_outcome"}

NullString == [null |-> TRUE, val |-> ""]

\* the message field of the JSON body of a non-2xx answer
ServerMessages == {NullString, Some(""), Some("duplicate key")}

\* a mutation in flight: step is the request of its mutation function that is
\* awaited; a form mutation also holds the note id typed in the header draft
\* (draft), the note id of the record the header POST returned (created) and
\* the note id its line items carry (lines); notes is the number of line items
\* passed to mutate
Mutation(id, op, row) ==
    [id |-> id, op |-> op, row |-> row, step |-> 1, draft |-> 0,
     created |-> NullNumber, lines |-> NullNumber, notes |-> 0]

\* the note id field of the header draft: 0 until the user types one
DraftNoteIds == {0, 1}

NoSettled ==
    [op |-> "none", row |-> NoRow, step |-> 1, outcome |-> "none",
     response |-> NullString, error |-> ""]

\* how mutation m ended: the message of the answer's body, the message of
\* the Error the mutation failed with
Settled(m, outcome, response, error) ==
    [op |-> m.op, row |-> m.row, step |-> m.step, outcome |-> outcome,
     response |-> response, error |-> error]

Gerund(op) ==
    CASE op = "create" -> "creating"
      [] op = "update" -> "updating"
      [] op = "delete" -> "deleting"

\* the message of the Error the mutation function throws for a non-2xx
\* answer whose body carries message
MutationErrorMessage(e, m, message) ==
    CASE m.op = "form" /\ e = "products_income" ->
             IF m.step = 1 THEN "Failed to create products income"
             ELSE "Failed to create income notes"
      [] m.op = "form" /\ e = "products_outcome" ->
             IF m.step = 1 THEN "Failed to create products outcome"
             ELSE "Failed to create outcome notes"
      [] m.op # "form" /\ e = "income_notes" ->
             IF ~message.null /\ message.val # "" THEN message.val
             ELSE "Failed to " \o m.op \o " income note"
      [] m.op # "form" /\ e = "products_income" ->
             "Error " \o Gerund(m.op) \o " ProductsIncome"
      [] m.op # "form" /\ e = "products_outcome" ->
             "Error " \o Gerund(m.op) \o " ProductsOutcome"
      [] OTHER -> "Network response was not ok"

\* partialMatchKey: the filter's key is a prefix of the query's key
PartialMatchKey(k, filterKey) ==
    /\ Len(filterKey) <= Len(k)
    /\ \A i \in 1..Len(filterKey) : k[i] = filterKey[i]

\* queryClient.invalidateQueries({ queryKey }): every matching query is
\* marked invalidated, and the matching query that is observed is fetched
\* again (a fetch of it that already has data is cancelled first)
invalidateQueries(filterKey) ==
    LET marked == [k \in DOMAIN queries |->
                      IF PartialMatchKey(k, filterKey)
                      THEN [queries[k] EXCEPT !.isInvalidated = TRUE]
                      ELSE queries[k]]
        q == marked[CurrentKey]
        join == q.fetchStatus = "fetching" /\ ~q.data.defined
        params == IF join THEN url ELSE queryFnParams(url, CurrentArgs)
        qs == [marked EXCEPT ![CurrentKey] = FetchState(@)]
    IN  IF PartialMatchKey(CurrentKey, filterKey)
        THEN /\ queries' = qs
             /\ url' = params
             /\ network' =
                    IF join THEN network
                    ELSE {r \in network : r.key # CurrentKey}
                             \cup {Request(CurrentArgs, params)}
             /\ Notify(qs, CurrentKey, currentResult)
        ELSE /\ queries' = marked
             /\ UNCHANGED << url, network, currentResult, lastQueryWithDefinedData >>

\* the toolbar button of a table without a form: table.setCreatingRow(true)
setCreatingRow ==
    /\ ~HasForm(entity)
    /\ ~creatingRow
    /\ creatingRow' = TRUE
    /\ UNCHANGED << entity, db, editingRow, validationErrors, isFormOpen,
                    mutations, dispatched, settled, descriptorVars, cacheVars,
                    getVars, screenVars >>

\* the edit button of a displayed row: table.setEditingRow(row)
setEditingRow ==
    /\ \E r \in DisplayedRows :
           /\ r # editingRow
           /\ editingRow' = r
    /\ UNCHANGED << entity, db, creatingRow, validationErrors, isFormOpen,
                    mutations, dispatched, settled, descriptorVars, cacheVars,
                    getVars, screenVars >>

onCreatingRowCancel ==
    /\ creatingRow
    /\ creatingRow' = FALSE
    /\ validationErrors' = NoErrors
    /\ UNCHANGED << entity, db, editingRow, isFormOpen, mutations, dispatched,
                    settled, descriptorVars, cacheVars, getVars, screenVars >>

onEditingRowCancel ==
    /\ editingRow # NoRow
    /\ editingRow' = NoRow
    /\ validationErrors' = NoErrors
    /\ UNCHANGED << entity, db, creatingRow, isFormOpen, mutations, dispatched,
                    settled, descriptorVars, cacheVars, getVars, screenVars >>

\* the edit text fields that have an onFocus handler, per table
FocusFields(e) ==
    CASE e = "warehouses" -> {"warehouse_name", "address"}
      [] e = "employees" -> {"inn", "employee_name", "phone_number"}
      [] e = "positions" -> {"position_name", "salary"}
      [] e = "products" -> {"product_name", "supplier", "item_number"}
      [] OTHER -> {}

\* the value onFocus stores under the key of its field
undefined == "<undefined>"

\* error: !!validationErrors?.field
HasError(errors, field) ==
    field \in DOMAIN errors /\ errors[field] \notin {"", undefined}

\* an onFocus that stores an empty object
onFocus_ClearsAll(field) ==
    /\ creatingRow \/ editingRow # NoRow
    /\ field \in FocusFields(entity)
    /\ validationErrors' = (field :> undefined)
    /\ UNCHANGED << entity, db, creatingRow, editingRow, isFormOpen, mutations,
                    dispatched, settled, descriptorVars, cacheVars, getVars,
                    screenVars >>

\* onFocus of an edit text field:
\* setValidationErrors({ ...validationErrors, field: undefined })
onFocus(field) ==
    /\ creatingRow \/ editingRow # NoRow
    /\ field \in FocusFields(entity)
    /\ validationErrors' = (field :> undefined) @@ validationErrors
    /\ UNCHANGED << entity, db, creatingRow, editingRow, isFormOpen, mutations,
                    dispatched, settled, descriptorVars, cacheVars, getVars,
                    screenVars >>

\* the user puts the cursor into one of the edit text fields of the open row
Focus == \E field \in FocusFields(entity) : onFocus(field)

\* mutate / mutateAsync: the request of the mutation function goes out
Dispatch(op, row) ==
    /\ dispatched < MaxMutations
    /\ dispatched' = dispatched + 1
    /\ mutations' = mutations \cup {Mutation(dispatched + 1, op, row)}

\* the save handler of a row, up to the await of its mutation
SaveRow(op, row, values) ==
    LET newValidationErrors == validate(entity, values)
    IN  IF SomeError(newValidationErrors)
        THEN /\ validationErrors' = newValidationErrors
             /\ UNCHANGED << mutations, dispatched >>
        ELSE /\ validationErrors' = NoErrors
             /\ Dispatch(op, row)

\* handleCreate<Entity>: onCreatingRowSave with the values of the draft row
handleCreate(values) ==
    /\ creatingRow
    /\ SaveRow("create", NoRow, values)
    /\ UNCHANGED << entity, db, creatingRow, editingRow, isFormOpen, settled,
                    descriptorVars, cacheVars, getVars, screenVars >>

\* handleSave<Entity>: onEditingRowSave with the values of the edited row
handleSave(values) ==
    /\ editingRow # NoRow
    /\ SaveRow("update", editingRow, values)
    /\ UNCHANGED << entity, db, creatingRow, editingRow, isFormOpen, settled,
                    descriptorVars, cacheVars, getVars, screenVars >>

onCreatingRowSave == \E values \in RowValues(entity) : handleCreate(values)

onEditingRowSave == \E values \in RowValues(entity) : handleSave(values)

\* a delete handler that does not look at what window.confirm returned
ConfirmDelete_Ignored(r, confirmed) ==
    /\ Dispatch("delete", r)
    /\ UNCHANGED << entity, db, creatingRow, editingRow, validationErrors,
                    isFormOpen, settled, descriptorVars, cacheVars, getVars, screenVars >>

\* the body of openDeleteConfirmModal for row r; confirmed is what
\* window.confirm returns
ConfirmDelete(r, confirmed) ==
    /\ IF confirmed
       THEN Dispatch("delete", r)
       ELSE UNCHANGED << mutations, dispatched >>
    /\ UNCHANGED << entity, db, creatingRow, editingRow, validationErrors,
                    isFormOpen, settled, descriptorVars, cacheVars, getVars, screenVars >>

\* the delete button of a displayed row
openDeleteConfirmModal ==
    \E r \in DisplayedRows, confirmed \in BOOLEAN : ConfirmDelete(r, confirmed)

\* the toolbar button of a table with a form: setIsFormOpen(true)
openForm ==
    /\ HasForm(entity)
    /\ ~isFormOpen
    /\ isFormOpen' = TRUE
    /\ UNCHANGED << entity, db, creatingRow, editingRow, validationErrors,
                    mutations, dispatched, settled, descriptorVars, cacheVars,
                    getVars, screenVars >>

\* a Cancel button that also empties the line items of the draft
closeForm_ResetsDraft ==
    /\ isFormOpen
    /\ isFormOpen' = FALSE
    /\ formNotes' = << >>
    /\ UNCHANGED << entity, db, creatingRow, editingRow, validationErrors,
                    mutations, dispatched, settled, descriptorVars, cacheVars,
                    getVars, appVars, reportVars, lookupVars, formHeader >>

\* the Cancel button of the form: onClose
closeForm ==
    /\ isFormOpen
    /\ isFormOpen' = FALSE
    /\ UNCHANGED << entity, db, creatingRow, editingRow, validationErrors,
                    mutations, dispatched, settled, descriptorVars, cacheVars,
                    getVars, screenVars >>

\* the header draft of a form when it is mounted
InitialHeader == [note_id |-> 0, contractor |-> ""]

\* what can be typed into a field of the header
HeaderInputs(name) ==
    IF name = "note_id" THEN DraftNoteIds ELSE {"", "Acme"}

\* the item numbers offered by the select of a line item, and none chosen
ItemNumbers == {"", "N-1"}

MaxNotes == 2

\* the fields of the form that is open, and everything outside the form
formFrame ==
    << entity, db, creatingRow, editingRow, validationErrors, isFormOpen,
       mutations, dispatched, settled, descriptorVars, cacheVars, getVars,
       appVars, reportVars, lookupVars >>

\* handleProductsOutcomeChange / handleProductsIncomeChange: a header field
handleHeaderChange ==
    /\ isFormOpen
    /\ \E name \in DOMAIN formHeader :
           \E value \in HeaderInputs(name) \ {formHeader[name]} :
               formHeader' = [formHeader EXCEPT ![name] = value]
    /\ UNCHANGED << formNotes, formFrame >>

\* addOutcomeNote / addIncomeNote: an empty line item with the note id of the
\* header draft
addNote ==
    /\ isFormOpen
    /\ Len(formNotes) < MaxNotes
    /\ formNotes' = Append(formNotes, [item_number |-> "", note_id |-> formHeader.note_id])
    /\ UNCHANGED << formHeader, formFrame >>

\* handleOutcomeNoteChange / handleIncomeNoteChange: a field of line item index
handleNoteChange ==
    /\ isFormOpen
    /\ \E index \in 1..Len(formNotes) :
           \E value \in ItemNumbers \ {formNotes[index].item_number} :
               formNotes' = [formNotes EXCEPT ![index].item_number = value]
    /\ UNCHANGED << formHeader, formFrame >>

\* removeOutcomeNote / removeIncomeNote: prev.filter((_, i) => i !== index)
removeNote ==
    /\ isFormOpen
    /\ \E index \in 1..Len(formNotes) :
           formNotes' = [i \in 1..(Len(formNotes) - 1) |->
                            IF i < index THEN formNotes[i] ELSE formNotes[i + 1]]
    /\ UNCHANGED << formHeader, formFrame >>

\* the Save button of the form: handleSubmit, mutate({ header, notes })
handleSubmit ==
    /\ isFormOpen
    /\ dispatched < MaxMutations
    /\ dispatched' = dispatched + 1
    /\ mutations' = mutations \cup
           {[Mutation(dispatched + 1, "form", NoRow) EXCEPT
                 !.draft = formHeader.note_id, !.notes = Len(formNotes)]}
    /\ UNCHANGED << entity, db, creatingRow, editingRow, validationErrors,
                    isFormOpen, settled, descriptorVars, cacheVars, getVars, screenVars >>

NewId == (CHOOSE x \in db \cup {InitialRows} : \A y \in db \cup {InitialRows} : y <= x) + 1

\* the note id of the header record the server answers the header POST with:
\* the one submitted, or one it generated
CreatedNoteIds(draft) == {draft, NewId}

\* the note id the mutation function puts on every line item
LineNoteId(e, draft, created) ==
    IF e = "products_income" THEN created ELSE draft

\* the header POST of the form is answered 2xx and the line POST goes out
FormHeaderOk ==
    /\ \E m \in mutations :
           /\ m.op = "form"
           /\ m.step = 1
           /\ db' = db \cup {NewId}
           /\ \E created \in CreatedNoteIds(m.draft) :
                  mutations' = (mutations \ {m}) \cup
                      {[m EXCEPT !.step = 2,
                                 !.created = Some(created),
                                 !.lines = Some(LineNoteId(entity, m.draft, created))]}
    /\ UNCHANGED << entity, creatingRow, editingRow, validationErrors,
                    isFormOpen, dispatched, settled, descriptorVars, cacheVars,
                    getVars, screenVars >>

\* a success that sends the table back to its first page
MutationSuccess_ResetsPage ==
    /\ \E m \in mutations :
           /\ m.op = "form" => m.step = 2
           /\ m.op \in {"update", "delete"} => m.row \in db
           /\ db' = CASE m.op = "create" -> db \cup {NewId}
                      [] m.op = "delete" -> db \ {m.row}
                      [] OTHER -> db
           /\ mutations' = mutations \ {m}
           /\ settled' = Settled(m, "success", NullString, "")
           /\ creatingRow' = IF m.op = "create" THEN FALSE ELSE creatingRow
           /\ editingRow' = IF m.op = "update" THEN NoRow ELSE editingRow
           /\ isFormOpen' = IF m.op = "form" THEN FALSE ELSE isFormOpen
    /\ pagination' = InitialPagination
    /\ UNCHANGED << entity, validationErrors, dispatched, columnFilters,
                    globalFilter, sorting, changes, cacheVars, getVars,
                    screenVars >>

\* the (last) request of mutation m is answered 2xx: onSuccess invalidates,
\* and the handler awaiting the mutation closes its row or form
MutationSuccess ==
    /\ \E m \in mutations :
           /\ m.op = "form" => m.step = 2
           /\ m.op \in {"update", "delete"} => m.row \in db
           /\ db' = CASE m.op = "create" -> db \cup {NewId}
                      [] m.op = "delete" -> db \ {m.row}
                      [] OTHER -> db
           /\ mutations' = mutations \ {m}
           /\ settled' = Settled([m EXCEPT !.row = IF m.op = "create" THEN NewId ELSE m.row],
                                 "success", NullString, "")
           /\ invalidateQueries(InvalidationKey(entity))
           /\ creatingRow' = IF m.op = "create" THEN FALSE ELSE creatingRow
           /\ editingRow' = IF m.op = "update" THEN NoRow ELSE editingRow
           /\ isFormOpen' = IF m.op = "form" THEN FALSE ELSE isFormOpen
    /\ UNCHANGED << entity, validationErrors, dispatched, descriptorVars, getVars, screenVars >>

\* a form whose mutation runs onClose when it settles, failed or not
MutationHttpError_ClosesForm ==
    /\ \E m \in mutations, message \in ServerMessages :
           /\ mutations' = mutations \ {m}
           /\ settled' = Settled(m, "http_error", message,
                                 MutationErrorMessage(entity, m, message))
           /\ isFormOpen' = IF m.op = "form" THEN FALSE ELSE isFormOpen
    /\ UNCHANGED << entity, db, creatingRow, editingRow, validationErrors,
                    dispatched, descriptorVars, cacheVars, getVars, screenVars >>

\* the handler closing its row whether or not the mutation succeeded
MutationHttpError_ClosesRow ==
    /\ \E m \in mutations, message \in ServerMessages :
           /\ mutations' = mutations \ {m}
           /\ settled' = Settled(m, "http_error", message,
                                 MutationErrorMessage(entity, m, message))
           /\ creatingRow' = IF m.op = "create" THEN FALSE ELSE creatingRow
           /\ editingRow' = IF m.op = "update" THEN NoRow ELSE editingRow
    /\ UNCHANGED << entity, db, validationErrors, isFormOpen, dispatched,
                    descriptorVars, cacheVars, getVars, screenVars >>

\* a request of mutation m is answered non-2xx: the mutation function throws
MutationHttpError ==
    /\ \E m \in mutations, message \in ServerMessages :
           /\ mutations' = mutations \ {m}
           /\ settled' = Settled(m, "http_error", message,
                                 MutationErrorMessage(entity, m, message))
    /\ UNCHANGED << entity, db, creatingRow, editingRow, validationErrors,
                    isFormOpen, dispatched, descriptorVars, cacheVars, getVars, screenVars >>

\* fetch rejects: the mutation fails with the TypeError of fetch
MutationNetworkError ==
    /\ \E m \in mutations :
           /\ mutations' = mutations \ {m}
           /\ settled' = Settled(m, "network_error", NullString, "Failed to fetch")
    /\ UNCHANGED << entity, db, creatingRow, editingRow, validationErrors,
                    isFormOpen, dispatched, descriptorVars, cacheVars, getVars, screenVars >>

(***************************************************************************)
(* The lookup collections and the cells that show a foreign key.           *)
(***************************************************************************)
\* the foreign-key columns of the table of entity e that have a Cell
ForeignKeys(e) ==
    CASE e = "warehouses" -> {"manager_inn"}
      [] e = "employees" -> {"warehouse_id", "position_id"}
      [] e = "products_income" -> {"warehouse_id"}
      [] e = "products_outcome" -> {"warehouse_id"}
      [] OTHER -> {}

\* the lookup collection a foreign-key column is resolved in
LookupOf(column) ==
    CASE column = "manager_inn" -> "employees"
      [] column = "warehouse_id" -> "warehouses"
      [] column = "position_id" -> "positions"

LookupKinds == {"employees", "warehouses", "positions"}

\* the collections the table of entity e fetches when it is mounted
LookupsOf(e) == {LookupOf(column) : column \in ForeignKeys(e)}

\* useState([]) of every lookup collection
NoLookups == [kind \in LookupKinds |-> {}]

\* the keys a lookup record can have, and the key of a cell: 0 for unset
LookupKeys == 1..MaxLookupKeys
CellKeys == 0..MaxLookupKeys

\* the name field of the lookup record with key key
LookupName(key) == "name" \o ToString(key)

\* collection.find(r => r.key === key)?.name, null for undefined
Find(collection, key) ==
    IF key \in collection THEN Some(LookupName(key)) ELSE NullString

\* the operand after ?? in the Cell of the column, null where there is none
Fallback(e, column) ==
    CASE e = "warehouses" -> Some("N/A")
      [] e = "employees" -> NullString
      [] OTHER -> Some("Unknown")

\* what the Cell of a foreign-key column renders for a row with key key
Cell(e, column, key) ==
    LET found == Find(lookups[LookupOf(column)], key)
    IN  IF found.null THEN Fallback(e, column) ELSE found

\* the fetch of a lookup collection, started when the table is mounted, is
\* answered: setEmployees(data.data)
LookupLoaded ==
    /\ \E kind \in LookupsOf(entity), collection \in SUBSET LookupKeys :
           lookups' = [lookups EXCEPT ![kind] = collection]
    /\ UNCHANGED << descriptorVars, cacheVars, crudVars, getVars, appVars,
                    reportVars, formVars >>

InitCrud ==
    /\ lookups = NoLookups
    /\ formHeader = InitialHeader
    /\ formNotes = << >>
    /\ creatingRow = FALSE
    /\ editingRow = NoRow
    /\ validationErrors = NoErrors
    /\ isFormOpen = FALSE
    /\ mutations = {}
    /\ dispatched = 0
    /\ settled = NoSettled

(***************************************************************************)
(* App: the navigation select, the tab persisted in local storage.         *)
(***************************************************************************)
\* the values of the navigation select
Options ==
    {"option1", "option2", "option3", "option4", "option5", "option6",
     "option7", "option8", "option9"}

\* the tab whose component is the table of entity e (renderComponent)
OptionOf(e) ==
    CASE e = "warehouses" -> "option1"
      [] e = "employees" -> "option2"
      [] e = "positions" -> "option3"
      [] e = "products" -> "option4"
      [] e = "products_income" -> "option5"
      [] e = "income_notes" -> "option6"
      [] e = "products_outcome" -> "option7"
      [] e = "outcome_notes" -> "option8"

\* a first render that ignores what local storage holds
InitialOption_Default(stored) == "option1"

\* localStorage.getItem('selectedOption') || 'option1'; stored is null when
\* the key is absent
InitialOption(stored) ==
    IF stored.null \/ stored.val = "" THEN "option1" ELSE stored.val

(***************************************************************************)
(* The report screen (IntegratedReportComponent).                          *)
(***************************************************************************)
ReportTypes == {"inventory", "revenue", "cost"}

\* the items of the sort-by select for report type type
SortByOptions(type) ==
    {"warehouse_id", "item_number", "product_name"}
        \cup (IF type = "inventory" THEN {"total_remaining"} ELSE {"total"})

GroupByOptions == {"warehouse_id", "item_number"}

\* the items of the warehouse select: 'all' (null) and the warehouses fetched
WarehouseOptions == {NullNumber, Some(1)}

\* format(new Date(), 'yyyy-MM-dd') at mount, and another day
Today == "2024-05-01"
Dates == {Today, "2024-05-31"}

InitialReportType == "inventory"

InitialReportParams ==
    [warehouseId |-> NullNumber, startDate |-> Today, endDate |-> Today,
     groupBy |-> "warehouse_id", sortBy |-> "item_number"]

\* a type change that keeps the sort key whatever the new type is
ResetSortBy_Kept(newReportType, params) == params

\* the sort key after a change of the report type
ResetSortBy(newReportType, params) ==
    IF newReportType = "inventory" /\ params.sortBy = "total"
    THEN [params EXCEPT !.sortBy = "total_remaining"]
    ELSE IF newReportType # "inventory" /\ params.sortBy = "total_remaining"
         THEN [params EXCEPT !.sortBy = "total"]
         ELSE params

\* the report type select; it reports a change only for another item
handleReportTypeChange ==
    /\ selectedOption = "option9"
    /\ \E newReportType \in ReportTypes \ {reportType} :
           /\ reportType' = newReportType
           /\ reportData' = <<>>
           /\ reportParams' = ResetSortBy(newReportType, reportParams)
    /\ UNCHANGED << reportRequests, appVars, tableVars >>

\* the warehouse, group-by and sort-by selects; the group-by select is
\* rendered for inventory reports only
handleParamChange ==
    /\ selectedOption = "option9"
    /\ \/ \E value \in WarehouseOptions \ {reportParams.warehouseId} :
              reportParams' = [reportParams EXCEPT !.warehouseId = value]
       \/ /\ reportType = "inventory"
          /\ \E value \in GroupByOptions \ {reportParams.groupBy} :
                 reportParams' = [reportParams EXCEPT !.groupBy = value]
       \/ \E value \in SortByOptions(reportType) \ {reportParams.sortBy} :
              reportParams' = [reportParams EXCEPT !.sortBy = value]
    /\ UNCHANGED << reportType, reportData, reportRequests, appVars, tableVars >>

\* the two date pickers, rendered for revenue and cost reports; a cleared
\* picker reports null, which is ignored
handleDateChange ==
    /\ selectedOption = "option9"
    /\ reportType # "inventory"
    /\ \E name \in {"startDate", "endDate"}, date \in {NullString} \cup {Some(d) : d \in Dates} :
           reportParams' = IF date.null
                           THEN reportParams
                           ELSE [reportParams EXCEPT ![name] = date.val]
    /\ UNCHANGED << reportType, reportData, reportRequests, appVars, tableVars >>

\* the button: generateReportMutation.mutate({ type, params })
handleGenerateReport ==
    /\ selectedOption = "option9"
    /\ Cardinality(reportRequests) < MaxReports
    /\ reportRequests' = reportRequests \cup
                             {[type |-> reportType, params |-> reportParams]}
    /\ UNCHANGED << reportType, reportParams, reportData, appVars, tableVars >>

SeqsUpTo(S, n) == UNION {[1..k -> S] : k \in 0..n}

\* the rows a report of type type is answered with; amounts are in hundredths
\* and a row of a revenue or cost report may come without its total
ReportRows(type) ==
    SeqsUpTo(IF type = "inventory"
             THEN {[total_remaining |-> Some(7), total |-> NullNumber]}
             ELSE {[total_remaining |-> NullNumber, total |-> t] :
                       t \in {NullNumber, Some(2550), Some(10000)}},
             MaxReportRows)

\* a report request is answered 2xx: onSuccess stores the rows
ReportOk ==
    /\ \E r \in reportRequests :
           \E rows \in ReportRows(r.type) :
               /\ reportRequests' = reportRequests \ {r}
               /\ reportData' = rows
    /\ UNCHANGED << reportType, reportParams, appVars, tableVars >>

\* a report request is answered non-2xx or fetch rejects: the mutation fails
ReportError ==
    /\ \E r \in reportRequests : reportRequests' = reportRequests \ {r}
    /\ UNCHANGED << reportType, reportParams, reportData, appVars, tableVars >>

\* the accessor keys of the columns of the result table
columns ==
    << "warehouse_id", "item_number", "product_name" >>
        \o (IF reportType = "inventory" THEN << "total_remaining" >> ELSE << "total" >>)

\* a sum that stops at the first row
totalAmount_FirstRow(rows) ==
    IF rows = <<>> \/ rows[1].total.null THEN 0 ELSE rows[1].total.val

RECURSIVE Reduce(_, _)
\* reportData.reduce((sum, item) => sum + Number(item.total || 0), 0)
Reduce(rows, sum) ==
    IF rows = <<>>
    THEN sum
    ELSE Reduce(Tail(rows),
                sum + (IF Head(rows).total.null THEN 0 ELSE Head(rows).total.val))

totalAmount(rows) == Reduce(rows, 0)

\* amount.toFixed(2) of an amount given in hundredths
toFixed(hundredths) ==
    ToString(hundredths \div 100) \o "."
        \o ToString((hundredths % 100) \div 10) \o ToString(hundredths % 10)

\* the result table is rendered
ShowsTable == Len(reportData) > 0

\* the line under the result table, null when it is not rendered; RUB stands
\* for the rouble sign
GrandTotal ==
    IF ShowsTable /\ reportType # "inventory"
    THEN Some(toFixed(totalAmount(reportData)) \o "RUB")
    ELSE NullString

InitReport ==
    /\ reportType = InitialReportType
    /\ reportParams = InitialReportParams
    /\ reportData = <<>>
    /\ reportRequests = {}

\* the select of the navigation: handleSelect, the render it causes (a report
\* screen that is left is unmounted and one that is entered starts from its
\* initial state) and the effect storing the tab, which runs with that render
handleSelect ==
    /\ \E option \in Options \ {selectedOption} :
           /\ selectedOption' = option
           /\ localStorage' = Some(option)
    /\ reportType' = InitialReportType
    /\ reportParams' = InitialReportParams
    /\ reportData' = <<>>
    /\ reportRequests' = {}
    /\ UNCHANGED << effectPending, tableVars >>

\* the effect of the first render: localStorage.setItem('selectedOption', ...)
StoreSelectedOption ==
    /\ effectPending
    /\ effectPending' = FALSE
    /\ localStorage' = Some(selectedOption)
    /\ UNCHANGED << selectedOption, reportVars, tableVars >>

\* the page is loaded again: App is constructed from what local storage holds
Reload ==
    /\ selectedOption' = InitialOption(localStorage)
    /\ effectPending' = TRUE
    /\ reportType' = InitialReportType
    /\ reportParams' = InitialReportParams
    /\ reportData' = <<>>
    /\ reportRequests' = {}
    /\ UNCHANGED << localStorage, tableVars >>

\* the screens while the table of entity e is followed
InitScreens(e) ==
    /\ selectedOption = OptionOf(e)
    /\ localStorage = Some(OptionOf(e))
    /\ effectPending = FALSE
    /\ InitReport

(***************************************************************************)
(* The table as mounted on page load.                                      *)
(***************************************************************************)
InitialArgs(e) == UseGetArgs(InitialPagination, <<>>, <<>>, InitialSorting(e))

InitList ==
    /\ pagination = InitialPagination
    /\ columnFilters = <<>>
    /\ globalFilter = <<>>
    /\ sorting = InitialSorting(entity)
    /\ changes = 0
    /\ LET a == InitialArgs(entity)
           k == queryKey(a)
           params == queryFnParams(NoParams, a)
           qs == [x \in {k} |-> FetchState(NewQuery)]
       IN  /\ url = params
           /\ queries = qs
           /\ network = {Request(a, params)}
           /\ currentResult = createResult(qs[k], NoResult, NoData)
           /\ lastQueryWithDefinedData = NoKey

Init ==
    /\ entity \in Entities
    /\ db = 1..InitialRows
    /\ getArgs = InitialArgs(entity)
    /\ InitList
    /\ InitCrud
    /\ InitScreens(entity)

ListNext ==
    \/ onPaginationChange
    \/ onSortingChange
    \/ onColumnFiltersChange
    \/ onGlobalFilterChange
    \/ WindowFocus
    \/ FetchOk
    \/ FetchHttpError
    \/ FetchRetry
    \/ FetchNetworkError

vars ==
    << entity, pagination, columnFilters, globalFilter, sorting, url, queries,
       currentResult, lastQueryWithDefinedData, network, db, changes,
       creatingRow, editingRow, validationErrors, isFormOpen, mutations,
       dispatched, settled, getArgs, screenVars >>

CrudNext ==
    \/ FetchOk
    \/ setCreatingRow
    \/ setEditingRow
    \/ onCreatingRowCancel
    \/ onEditingRowCancel
    \/ onCreatingRowSave
    \/ onEditingRowSave
    \/ openDeleteConfirmModal
    \/ openForm
    \/ closeForm
    \/ handleSubmit
    \/ FormHeaderOk
    \/ MutationSuccess
    \/ MutationHttpError
    \/ MutationNetworkError

\* a table with its rows being created, edited and deleted
SpecCrud == Init /\ [][CrudNext]_vars

Spec == Init /\ [][ListNext]_vars

(***************************************************************************)
(* Properties of the list layer.                                           *)
(***************************************************************************)
NonBlank(text) == \E i \in 1..Len(text) : text[i] \notin Whitespace

IsBlankFilter(gf) == gf.null \/ ~NonBlank(gf.val)

\* C1: a list request issued while the global filter text is blank carries
\* no globalFilter parameter, whatever was sent before it.
C1_BlankFilterSendsNoParameter ==
    \A r \in network :
        IsBlankFilter(r.args.globalFilter) => "globalFilter" \notin DOMAIN r.params

\* C3: every list request carries start = pageIndex * pageSize, size =
\* pageSize, filters = the JSON of the column filters ([] when there are
\* none), sorting = the JSON of the sorting ([] when there is none) and, for
\* a text that is not blank, globalFilter = "%" text "%".
C3_RequestCarriesDescriptor ==
    \A r \in network :
        LET a == r.args
        IN  /\ r.params["start"] = ToString(a.pagination.pageIndex * a.pagination.pageSize)
            /\ r.params["size"] = ToString(a.pagination.pageSize)
            /\ r.params["filters"] =
                   IF a.columnFilters.null THEN "[]"
                   ELSE JsonArray(a.columnFilters.val, JsonFilter)
            /\ r.params["sorting"] =
                   IF a.sorting.null THEN "[]"
                   ELSE JsonArray(a.sorting.val, JsonSort)
            /\ ~IsBlankFilter(a.globalFilter) =>
                   /\ "globalFilter" \in DOMAIN r.params
                   /\ r.params["globalFilter"] = <<"%">> \o a.globalFilter.val \o <<"%">>

\* a request for the second page of 20 with a search text and with null
\* column filters and sorting
C3_Witness ==
    \E r \in network :
        /\ r.args.pagination = [pageIndex |-> 1, pageSize |-> 20]
        /\ r.args.columnFilters.null
        /\ r.args.sorting.null
        /\ r.args.globalFilter = Some(<<"a", "b">>)
        /\ r.params["start"] = "20"
        /\ r.params["filters"] = "[]"
        /\ r.params["globalFilter"] = <<"%", "a", "b", "%">>

CurrentFetchInFlight == \E r \in network : r.key = CurrentKey

\* the step settles the fetch of the identity the table is on
CurrentSettled == \E r \in network : r.key = CurrentKey /\ r \notin network'

\* C4: when the fetch of the table's identity gets a non-2xx answer or fails
\* at the network level, isError becomes true and the rows and the total
\* shown stay what they were; a non-2xx body is never the table's data.
C4_FailedFetchKeepsRows ==
    [][((FetchHttpError \/ FetchNetworkError) /\ CurrentSettled) =>
           /\ isError'
           /\ data' = data
           /\ rowCount' = rowCount
           /\ currentResult'.data.defined => currentResult'.data.ok]_vars

\* C5: the data the table shows for its current identity came from a request
\* made for that identity; all it shows besides is the page retained while
\* the current identity's own fetch is pending.  Every cached page sits under
\* the identity it was requested for.
C5_NoStaleResponseShown ==
    /\ \A k \in DOMAIN queries :
           queries[k].data.defined => queries[k].data.request.key = k
    /\ currentResult.data.defined =>
           \/ /\ ~currentResult.isPlaceholderData
              /\ currentResult.data.request.key = CurrentKey
           \/ /\ currentResult.isPlaceholderData
              /\ ~queries[CurrentKey].data.defined
              /\ CurrentFetchInFlight

\* the answer to a fetch of an identity the table has left arrived: it is in
\* the cache, and the table, which never showed it, waits for its own fetch
C5_Witness ==
    /\ \E k \in DOMAIN queries : k # CurrentKey /\ queries[k].data.defined
    /\ lastQueryWithDefinedData = NoKey
    /\ CurrentFetchInFlight
    /\ ~currentResult.data.defined

\* C6: two fetches under one request identity, the server's rows unchanged
\* between them, send the same parameters and get the same rows and total.
C6_SameIdentitySameFetch ==
    \A r \in network :
        LET d == queries[r.key].data
        IN  (d.defined /\ d.ok /\ d.db = db) =>
                /\ r.params = d.request.params
                /\ ListBody(db, r.params) = d.body

\* C7 as amended: when the identity changes a fetch of the new identity is in
\* flight; while the current identity has no data of its own and is being
\* fetched, a table that was showing data goes on showing those rows with
\* isRefetching true and isLoading false; isLoading is true only while the
\* current identity's fetch is pending and the table has not shown data yet.
C7_PreviousPageWhilePending ==
    /\ [][CurrentKey' # CurrentKey =>
              /\ \E r \in network' : r.key = CurrentKey'
              /\ isFetching']_vars
    /\ [][(/\ currentResult.data.defined
           /\ ~queries'[CurrentKey'].data.defined
           /\ queries'[CurrentKey'].fetchStatus = "fetching") =>
              /\ currentResult'.data = currentResult.data
              /\ data' = data
              /\ rowCount' = rowCount
              /\ isRefetching'
              /\ ~isLoading']_vars
    /\ [](isLoading =>
              /\ CurrentFetchInFlight
              /\ lastQueryWithDefinedData = NoKey
              /\ ~currentResult.data.defined)

\* the first page is shown, refetching, while the second page is pending
C7_Witness ==
    /\ pagination.pageIndex = 1
    /\ ~queries[CurrentKey].data.defined
    /\ CurrentFetchInFlight
    /\ currentResult.isPlaceholderData
    /\ currentResult.data.request.args.pagination.pageIndex = 0
    /\ data = <<1, 2>>
    /\ isRefetching
    /\ ~isLoading

ReceivedData == \E k \in DOMAIN queries : queries[k].data.defined

\* C7 as stated: previous data is any data received so far, shown or not
C7_AsStated ==
    /\ isLoading => (CurrentFetchInFlight /\ ~ReceivedData)
    /\ (CurrentFetchInFlight /\ ~queries[CurrentKey].data.defined /\ ReceivedData) =>
           /\ currentResult.data.defined
           /\ isRefetching
           /\ ~isLoading

(***************************************************************************)
(* Properties of row editing and of the mutations.                         *)
(***************************************************************************)
\* C2: when a create, update or delete (or the form's compound create)
\* succeeds, the cached list the table observes is invalidated and a fetch
\* for the current descriptor is under way.
C2_SuccessInvalidatesObservedList ==
    [][MutationSuccess =>
           /\ queries'[CurrentKey'].isInvalidated
           /\ \E r \in network' : r.key = CurrentKey']_vars

\* the row or draft a mutation is about
SameTarget(m1, m2) ==
    IF m1.row # NoRow THEN m1.row = m2.row
    ELSE m2.row = NoRow /\ m1.op = m2.op

\* C8: no two mutation requests for one row, one draft row or one form
\* draft are in flight at once.
C8_OneMutationPerRow ==
    \A m1, m2 \in mutations : SameTarget(m1, m2) => m1 = m2

HasMessage(errors) == \E f \in DOMAIN errors : errors[f] # ""

\* the step dispatches nothing, shows the messages and leaves the rows open
Blocked(errors) ==
    /\ mutations' = mutations
    /\ dispatched' = dispatched
    /\ validationErrors' = errors
    /\ creatingRow' = creatingRow
    /\ editingRow' = editingRow

\* C9: a save of a draft row or of an edited row whose validator returns a
\* non-empty message dispatches no mutation, stores the validator's result
\* in validationErrors and leaves the row open; a product saved with an
\* empty product_name is blocked with the product_name message set.
C9_InvalidSaveBlocked ==
    [][\A values \in RowValues(entity) :
           /\ (handleCreate(values) /\ HasMessage(validate(entity, values))) =>
                  (creatingRow' /\ Blocked(validate(entity, values)))
           /\ (handleSave(values) /\ HasMessage(validate(entity, values))) =>
                  (editingRow' # NoRow /\ Blocked(validate(entity, values)))
           /\ (/\ entity = "products"
               /\ values.product_name = ""
               /\ handleCreate(values) \/ handleSave(values)) =>
                  /\ mutations' = mutations
                  /\ dispatched' = dispatched
                  /\ validationErrors'["product_name"] = "product_name required"]_vars

\* a product draft whose save was refused for its empty product_name
C9_Witness ==
    /\ entity = "products"
    /\ creatingRow
    /\ "product_name" \in DOMAIN validationErrors
    /\ validationErrors["product_name"] = "product_name required"
    /\ validationErrors["supplier"] = ""
    /\ mutations = {}
    /\ dispatched = 0

\* C10: a mutation answered non-2xx fails with the message of the answer's
\* body when it has one, and with a generic message otherwise.
C10_ErrorCarriesServerMessage ==
    settled.outcome = "http_error" =>
        IF ~settled.response.null /\ settled.response.val # ""
        THEN settled.error = settled.response.val
        ELSE settled.error # ""

\* the step is the failure of a mutation dispatched from a row save
RowSaveFails ==
    /\ MutationHttpError \/ MutationNetworkError
    /\ settled'.op \in {"create", "update"}

\* C11: when a create or update dispatched from a row save fails, the draft
\* row and the edited row stay as they were and the list cache is neither
\* invalidated nor fetched again; an open row is closed only by the success
\* of a mutation or by its cancel button.
C11_FailedSaveKeepsRowOpen ==
    /\ [][RowSaveFails =>
              /\ creatingRow' = creatingRow
              /\ editingRow' = editingRow
              /\ queries' = queries
              /\ network' = network]_vars
    /\ [][(creatingRow /\ ~creatingRow') =>
              (MutationSuccess \/ onCreatingRowCancel)]_vars
    /\ [][(editingRow # NoRow /\ editingRow' = NoRow) =>
              (MutationSuccess \/ onEditingRowCancel)]_vars

\* the only mutation dispatched, a create, was answered non-2xx and the
\* draft row is still open
C11_Witness ==
    /\ settled.op = "create"
    /\ settled.outcome = "http_error"
    /\ dispatched = 1
    /\ mutations = {}
    /\ creatingRow

(***************************************************************************)
(* C12                                                                     *)
(***************************************************************************)

\* C12: in every entity table a DELETE request for a row is dispatched only by
\* the delete button of that row with the confirmation accepted, and declining
\* the confirmation sends no request and changes no state.
C12_DeleteOnlyAfterConfirm ==
    /\ [][\A r \in DisplayedRows : ConfirmDelete(r, FALSE) => UNCHANGED vars]_vars
    /\ [][\A m \in mutations' \ mutations :
               m.op = "delete" =>
                   /\ m.row \in DisplayedRows
                   /\ ConfirmDelete(m.row, TRUE)]_vars

C12_Witness ==
    \E m \in mutations : m.op = "delete" /\ m.row \in DisplayedRows

(***************************************************************************)
(* C13                                                                     *)
(***************************************************************************)

\* the line-item POST of form mutation m is in flight
LinePostInFlight(m) == m.op = "form" /\ m.step = 2

\* C13: in a compound create the line-item POST is in flight only after the
\* header POST was answered with a created record, and its line items carry
\* the note id of that record.
C13_LinesReferenceCreatedHeader ==
    \A m \in mutations :
        LinePostInFlight(m) =>
            /\ m.created # NullNumber
            /\ m.lines = m.created

(***************************************************************************)
(* C14                                                                     *)
(***************************************************************************)

\* the step is the failure of the line-item POST of a compound create, whose
\* header POST had succeeded
LinePostFails ==
    /\ MutationHttpError \/ MutationNetworkError
    /\ settled'.op = "form"
    /\ settled'.step = 2

\* C14: when the line-item POST of a compound create fails after its header
\* POST succeeded, the mutation settles as failed, no request is sent (no
\* DELETE of the header), the server keeps the header, the list cache is not
\* invalidated or fetched again, and the form dialog stays as it was.
C14_OrphanedHeaderKept ==
    [][LinePostFails =>
           /\ settled'.outcome \in {"http_error", "network_error"}
           /\ mutations' \subseteq mutations
           /\ dispatched' = dispatched
           /\ db' = db
           /\ queries' = queries
           /\ network' = network
           /\ isFormOpen' = isFormOpen]_vars

C14_Witness ==
    /\ settled.op = "form"
    /\ settled.step = 2
    /\ settled.outcome = "http_error"
    /\ mutations = {}
    /\ isFormOpen
    /\ Cardinality(db) = InitialRows + 1

(***************************************************************************)
(* C15                                                                     *)
(***************************************************************************)

\* the rows of the table instance that are in the creating or editing state
OpenRows ==
    (IF creatingRow THEN 1 ELSE 0) + (IF editingRow # NoRow THEN 1 ELSE 0)

\* C15: in every reachable state of a table instance at most one row is in
\* the editing or creating state.
C15_AtMostOneRowOpen == OpenRows <= 1

(***************************************************************************)
(* C21                                                                     *)
(***************************************************************************)

\* the warehouses table with rows created, edited and deleted while the user
\* moves between pages
PagedNext ==
    \/ onPaginationChange
    \/ FetchOk
    \/ setCreatingRow
    \/ setEditingRow
    \/ onCreatingRowCancel
    \/ onEditingRowCancel
    \/ onCreatingRowSave
    \/ onEditingRowSave
    \/ openDeleteConfirmModal
    \/ MutationSuccess
    \/ MutationHttpError
    \/ MutationNetworkError

InitPaged == Init /\ entity = "warehouses"

SpecPaged == InitPaged /\ [][PagedNext]_vars

\* C21: a step in which a create, update or delete mutation is dispatched,
\* answered or failed leaves pageIndex, pageSize, sorting, column filters and
\* global filter as they were.
C21_MutationKeepsDescriptor ==
    [][(mutations' # mutations \/ settled' # settled) =>
           /\ pagination' = pagination
           /\ sorting' = sorting
           /\ columnFilters' = columnFilters
           /\ globalFilter' = globalFilter]_vars

\* a create has succeeded while the table is on its second page
C21_Witness ==
    /\ pagination.pageIndex = 1
    /\ settled.op = "create"
    /\ settled.outcome = "success"
    /\ mutations = {}

(***************************************************************************)
(* C22                                                                     *)
(***************************************************************************)

\* the response the table shows
Shown == currentResult.data

\* the rows the server held that matched the request of the shown response
TrueTotal ==
    Cardinality({i \in Shown.db : MatchesRequest(i, Shown.request.params)})

\* C22: the row count given to the pagination control is 0 while no response
\* is shown, and otherwise the meta.totalRowCount of the response shown (0 for
\* a body without meta); for a list response it is the number of rows the
\* server holds for the request, whatever the page holds and whatever the
\* page size is.
C22_RowCountIsTotalRowCount ==
    /\ ~Shown.defined => rowCount = 0
    /\ Shown.defined =>
           rowCount = IF Shown.body.meta.null THEN 0 ELSE Shown.body.meta.val
    /\ (Shown.defined /\ Shown.ok) => rowCount = TrueTotal

\* the second page is shown: it holds no row, and the page size exceeds the
\* total
C22_Witness ==
    /\ Shown.defined
    /\ Shown.ok
    /\ Shown.request.key = CurrentKey
    /\ pagination.pageIndex = 1
    /\ data = <<>>
    /\ rowCount = InitialRows
    /\ pagination.pageSize > rowCount

(***************************************************************************)
(* C23                                                                     *)
(***************************************************************************)

\* a table that is mounted, with its list and its lookup collections loading
CellsNext == FetchOk \/ LookupLoaded

SpecCells == Init /\ [][CellsNext]_vars

\* C23: a foreign-key cell whose key has no match in its lookup collection,
\* loaded or not, shows a fallback label, and the manager cell of a
\* warehouse whose manager is unset shows N/A.
C23_UnmatchedKeyShowsFallback ==
    /\ \A column \in ForeignKeys(entity), key \in CellKeys :
           key \notin lookups[LookupOf(column)] =>
               /\ ~Cell(entity, column, key).null
               /\ Cell(entity, column, key).val # ""
    /\ entity = "warehouses" => Cell(entity, "manager_inn", 0) = Some("N/A")

(***************************************************************************)
(* C19                                                                     *)
(***************************************************************************)

\* no mutation and no fetch of the list is awaited
NothingInFlight == mutations = {} /\ network = {}

Occurrences(seq, x) == Cardinality({i \in DOMAIN seq : seq[i] = x})

\* C19: once the last mutation has succeeded and no fetch of the list is
\* awaited any more, the list the table shows contains the entity exactly
\* once when the mutation was a create, and does not contain the row's id
\* when it was a delete.
C19_ListReflectsMutation ==
    (NothingInFlight /\ settled.outcome = "success") =>
        /\ settled.op = "create" => Occurrences(data, settled.row) = 1
        /\ settled.op = "delete" => Occurrences(data, settled.row) = 0

(***************************************************************************)
(* C20                                                                     *)
(***************************************************************************)

\* C20: the fetched pages of all views are cached in one store, under keys
\* made of the entity and the descriptor, and the invalidation issued by a
\* successful mutation of an entity reaches every cached list of that entity.
C20_OneStoreKeyedByEntity ==
    /\ [](\A v1 \in Views, v2 \in Views : useQueryClient(v1) = useQueryClient(v2))
    /\ [](\A k \in DOMAIN queries : PartialMatchKey(k, InvalidationKey(entity)))
    /\ [][MutationSuccess =>
              \A k \in DOMAIN queries' : queries'[k].isInvalidated]_vars

(***************************************************************************)
(* C24: a save whose monetary amount fails the 2-decimal format check       *)
(* dispatches no mutation.                                                  *)
(***************************************************************************)
\* the tables whose validator has the 2-decimal check
AmountEntities == {"positions", "products_income", "products_outcome"}

\* the monetary amount among the values of a row: salary or total
AmountOf(e, values) == IF e = "positions" THEN values.salary ELSE values.total

\* C24: a save attempt on a products-income, products-outcome or position
\* row whose amount is not a number, or whose amount times 100 is not an
\* integer, is aborted: no mutation is dispatched.
C24_BadAmountAborts ==
    [][\A values \in RowValues(entity) :
           (/\ entity \in AmountEntities
            /\ NotTwoDecimals(AmountOf(entity, values))
            /\ (handleCreate(values) \/ handleSave(values)))
           => /\ mutations' = mutations
              /\ dispatched' = dispatched]_vars

(***************************************************************************)
(* C25: the employees table, saves with every shape of inn and phone_number *)
(***************************************************************************)
\* what can be typed into the inn cell: nothing, 11, 12 and 13 digits, and 12
\* characters one of which is a letter
InnInputs ==
    {<<>>, Repeat("7", 11), Repeat("7", 12), Repeat("7", 13),
     [Repeat("7", 12) EXCEPT ![5] = "x"]}

\* what can be typed into the phone_number cell: nothing, 10, 11 and 12
\* digits, and 11 characters one of which is not a digit
PhoneInputs ==
    {<<>>, Repeat("9", 10), Repeat("9", 11), Repeat("9", 12),
     [Repeat("9", 11) EXCEPT ![1] = "+"]}

\* the three required cells: all set, or one of them left unset
RequiredInputs ==
    LET set == [warehouse_id |-> 1, position_id |-> 1, employee_name |-> "Ann"]
    IN  {set, [set EXCEPT !.warehouse_id = 0], [set EXCEPT !.position_id = 0],
         [set EXCEPT !.employee_name = ""]}

\* every combination of the above
EmployeeCombinations ==
    {[inn |-> inn, warehouse_id |-> r.warehouse_id, position_id |-> r.position_id,
      employee_name |-> r.employee_name, phone_number |-> phone] :
         inn \in InnInputs, r \in RequiredInputs, phone \in PhoneInputs}

\* the rows the save handlers are run with: those with at most one cell wrong,
\* one with two cells wrong and one with every cell wrong
EmployeeInputs ==
    {v \in EmployeeCombinations :
        \/ v.inn = Repeat("7", 12) /\ v.warehouse_id = 1 /\ v.position_id = 1
              /\ v.employee_name = "Ann"
        \/ v.phone_number = Repeat("9", 11) /\ v.warehouse_id = 1 /\ v.position_id = 1
              /\ v.employee_name = "Ann"
        \/ v.inn = Repeat("7", 12) /\ v.phone_number = Repeat("9", 11)
        \/ v.inn = Repeat("7", 11) /\ v.phone_number = Repeat("9", 10)
              /\ v.warehouse_id = 1 /\ v.position_id = 1 /\ v.employee_name = "Ann"}

\* handleCreateEmployee with the values of the draft row
handleCreateEmployee == \E values \in EmployeeInputs : handleCreate(values)

\* handleSaveEmployee with the values of the edited row
handleSaveEmployee == \E values \in EmployeeInputs : handleSave(values)

EmployeesNext ==
    \/ FetchOk
    \/ setCreatingRow
    \/ setEditingRow
    \/ onCreatingRowCancel
    \/ onEditingRowCancel
    \/ handleCreateEmployee
    \/ handleSaveEmployee
    \/ MutationSuccess
    \/ MutationHttpError

InitEmployees == Init /\ entity = "employees"

SpecEmployees == InitEmployees /\ [][EmployeesNext]_vars

\* the fields of an employee the claim calls offending
OffendingFields(values) ==
    {f \in {"inn"} : ~(Len(values.inn) = 12 /\ \A i \in 1..12 : values.inn[i] \in Digits)}
    \cup {f \in {"warehouse_id"} : values.warehouse_id = 0}
    \cup {f \in {"position_id"} : values.position_id = 0}
    \cup {f \in {"employee_name"} : values.employee_name = ""}
    \cup {f \in {"phone_number"} :
              /\ values.phone_number # <<>>
              /\ ~(/\ Len(values.phone_number) = 11
                   /\ \A i \in 1..11 : values.phone_number[i] \in Digits)}

\* C25: an employee create or update is dispatched only when inn is exactly
\* 12 decimal digits, warehouse_id, position_id and employee_name are set and
\* phone_number is empty or exactly 11 decimal digits; a save with any other
\* values sends no request and leaves a message on every offending field.
\* The validator's verdict is compared for every combination of cell values,
\* the handlers are run with the rows of EmployeeInputs.
C25_EmployeeDispatchedOnlyWhenValid ==
    /\ [](\A values \in EmployeeCombinations :
              /\ SomeError(validate("employees", values)) <=> OffendingFields(values) # {}
              /\ \A f \in OffendingFields(values) :
                     /\ f \in DOMAIN validate("employees", values)
                     /\ validate("employees", values)[f] # "")
    /\ [][\A values \in EmployeeInputs :
           (handleCreate(values) \/ handleSave(values)) =>
               IF OffendingFields(values) = {}
               THEN /\ dispatched' = dispatched + 1
                    /\ validationErrors' = NoErrors
               ELSE /\ mutations' = mutations
                    /\ dispatched' = dispatched
                    /\ \A f \in OffendingFields(values) :
                           /\ f \in DOMAIN validationErrors'
                           /\ validationErrors'[f] # ""]_vars

\* one save has been dispatched and a later one was rejected for its phone
\* number alone
C25_Witness ==
    /\ entity = "employees"
    /\ dispatched = 1
    /\ DOMAIN validationErrors = {"phone_number"}

(***************************************************************************)
(* C26: the tables with row editing and error messages, with the cursor     *)
(* moved between the fields of the open row.                                *)
(***************************************************************************)
FocusNext ==
    \/ FetchOk
    \/ setCreatingRow
    \/ setEditingRow
    \/ onCreatingRowCancel
    \/ onEditingRowCancel
    \/ onCreatingRowSave
    \/ onEditingRowSave
    \/ Focus
    \/ MutationSuccess
    \/ MutationHttpError

InitFocus == Init /\ FocusFields(entity) # {}

SpecFocus == InitFocus /\ [][FocusNext]_vars

FormNext ==
    \/ openForm
    \/ closeForm
    \/ handleHeaderChange
    \/ addNote
    \/ handleNoteChange
    \/ removeNote
    \/ handleSubmit
    \/ FormHeaderOk
    \/ MutationSuccess
    \/ MutationHttpError

InitForm == Init /\ HasForm(entity)

SpecForm == InitForm /\ [][FormNext]_vars

\* C28: a compound create is submitted only with at least one line item in
\* the draft: neither its header POST nor its line-item POST is in flight for
\* an empty list of line items.
C28_SubmitNeedsLineItem ==
    \A m \in mutations : m.op = "form" => m.notes >= 1

\* C30: the header fields and the line items of the draft change only in a
\* step of the field, add-line and remove-line handlers; opening and closing
\* the dialog and the success or failure of a submission leave them as they
\* are.
C30_DraftChangedOnlyByItsHandlers ==
    /\ [][(formHeader' # formHeader \/ formNotes' # formNotes) =>
              (handleHeaderChange \/ addNote \/ handleNoteChange \/ removeNote)]_vars
    /\ [][(openForm \/ closeForm \/ MutationSuccess \/ MutationHttpError
              \/ FormHeaderOk) =>
              (formHeader' = formHeader /\ formNotes' = formNotes)]_vars

\* the dialog has been opened again after a submission that succeeded, and
\* shows the draft that was submitted
C30_Witness ==
    /\ isFormOpen
    /\ mutations = {}
    /\ settled.op = "form"
    /\ settled.outcome = "success"
    /\ formHeader = [note_id |-> 1, contractor |-> "Acme"]
    /\ Len(formNotes) = 1
    /\ formNotes[1] = [item_number |-> "N-1", note_id |-> 1]

(***************************************************************************)
(* useGet called directly with every kind of argument its signature        *)
(* admits (null column filters, null global filter, null sorting), one     *)
(* call after the other on the same URL object.                            *)
(***************************************************************************)
GetArgsDomain ==
    [pagination : [pageIndex : 0..MaxPageIndex, pageSize : PageSizes],
     columnFilters : {Null} \cup {Some(cf) : cf \in ColumnFilterStates},
     globalFilter : {Null} \cup {Some(gf) : gf \in GlobalFilterTexts},
     sorting : {Null, Some(<<>>), Some(<< [id |-> "id", desc |-> TRUE] >>)}]

\* the caller renders with arguments a and the query function of that
\* render runs
GetCall ==
    /\ \E a \in GetArgsDomain :
           LET params == queryFnParams(url, a)
           IN  /\ getArgs' = a
               /\ url' = params
               /\ network' = {Request(a, params)}
    /\ UNCHANGED << crudVars, pagination, columnFilters, globalFilter,
                    sorting, queries, currentResult, lastQueryWithDefinedData,
                    changes, screenVars >>

\* useGet does not depend on the entity of its caller
InitGet ==
    /\ entity = "warehouses"
    /\ db = 1..InitialRows
    /\ pagination = InitialPagination
    /\ columnFilters = <<>>
    /\ globalFilter = <<>>
    /\ sorting = InitialSorting(entity)
    /\ changes = 0
    /\ url = NoParams
    /\ queries = [k \in {} |-> NewQuery]
    /\ network = {}
    /\ currentResult = NoResult
    /\ lastQueryWithDefinedData = NoKey
    /\ getArgs = InitialArgs(entity)
    /\ InitCrud
    /\ InitScreens(entity)

SpecGet == InitGet /\ [][GetCall]_vars

(***************************************************************************)
(* App with the report screen: tabs are selected, the page is loaded       *)
(* again, and under the reports tab reports are set up and generated. The  *)
(* tables are not followed.                                                *)
(***************************************************************************)
InitApp ==
    /\ localStorage \in {NullString} \cup {Some(option) : option \in Options}
    /\ selectedOption = InitialOption(localStorage)
    /\ effectPending = TRUE
    /\ InitReport
    /\ entity = "warehouses"
    /\ db = 1..InitialRows
    /\ pagination = InitialPagination
    /\ columnFilters = <<>>
    /\ globalFilter = <<>>
    /\ sorting = InitialSorting(entity)
    /\ changes = 0
    /\ url = NoParams
    /\ queries = [k \in {} |-> NewQuery]
    /\ network = {}
    /\ currentResult = NoResult
    /\ lastQueryWithDefinedData = NoKey
    /\ getArgs = InitialArgs(entity)
    /\ InitCrud

AppNext ==
    \/ handleSelect
    \/ StoreSelectedOption
    \/ Reload
    \/ handleReportTypeChange
    \/ handleParamChange
    \/ handleDateChange
    \/ handleGenerateReport
    \/ ReportOk
    \/ ReportError

SpecApp == InitApp /\ [][AppNext]_vars


(***************************************************************************)
(* C16                                                                     *)
(***************************************************************************)

\* C16: on the report screen the sort key, in the parameters held and in
\* every request sent, is one of the options valid for the report type (never
\* total for inventory, never total_remaining for revenue or cost), and every
\* change of the report type empties the report data.
C16_SortByValidForKind ==
    /\ [](/\ reportParams.sortBy \in SortByOptions(reportType)
          /\ reportType = "inventory" => reportParams.sortBy # "total"
          /\ reportType # "inventory" => reportParams.sortBy # "total_remaining"
          /\ \A r \in reportRequests : r.params.sortBy \in SortByOptions(r.type))
    /\ [][reportType' # reportType => reportData' = <<>>]_vars

\* a revenue report sorted by total is still awaited, and the screen has been
\* switched to inventory with the sort key total_remaining
C16_Witness ==
    /\ reportType = "inventory"
    /\ reportParams.sortBy = "total_remaining"
    /\ reportData = <<>>
    /\ \E r \in reportRequests : r.type = "revenue" /\ r.params.sortBy = "total"


(***************************************************************************)
(* C17                                                                     *)
(***************************************************************************)

\* the total of a row, a missing total counting as 0
TotalOf(row) == IF row.total.null THEN 0 ELSE row.total.val

RECURSIVE SumOfTotals(_, _)
\* the totals of the first n rows added up
SumOfTotals(rows, n) ==
    IF n = 0 THEN 0 ELSE SumOfTotals(rows, n - 1) + TotalOf(rows[n])

\* text shows the amount of hundredths with two decimals and the currency sign
ShowsAmount(text, hundredths) ==
    \E d1 \in 0..9, d2 \in 0..9 :
        /\ (hundredths \div 100) * 100 + d1 * 10 + d2 = hundredths
        /\ text = ToString(hundredths \div 100) \o "." \o ToString(d1)
                      \o ToString(d2) \o "RUB"

ColumnKeys == {columns[i] : i \in DOMAIN columns}

\* C17: the result table of an inventory report has the remaining-quantity
\* column and no grand-total line; that of a revenue or cost report with at
\* least one row has the total column and a grand-total line showing the sum
\* of the totals of all rows (a missing total counting as 0) with two decimals
\* and the currency sign.
C17_ReportTable ==
    ShowsTable =>
        /\ reportType = "inventory" =>
               /\ "total_remaining" \in ColumnKeys
               /\ GrandTotal = NullString
        /\ reportType # "inventory" =>
               /\ "total" \in ColumnKeys
               /\ ~GrandTotal.null
               /\ ShowsAmount(GrandTotal.val,
                              SumOfTotals(reportData, Len(reportData)))

C17_Witness ==
    /\ reportType = "revenue"
    /\ Len(reportData) = 2
    /\ reportData[1].total = Some(2550)
    /\ reportData[2].total = Some(10000)
    /\ GrandTotal = Some("125.50RUB")


(***************************************************************************)
(* C18                                                                     *)
(***************************************************************************)

\* C18: once the effect of a render has run, the value stored under
\* 'selectedOption' is the selected tab, after every sequence of selections
\* and reloads; a reload selects the stored tab, and the first tab when
\* nothing is stored.
C18_SelectedOptionPersisted ==
    /\ [](~effectPending => localStorage = Some(selectedOption))
    /\ [][Reload =>
              selectedOption' = IF localStorage = NullString
                                THEN "option1"
                                ELSE localStorage.val]_vars
    /\ [][handleSelect => localStorage' = Some(selectedOption')]_vars

\* the effect has stored the selected tab, and the screen of that tab is in
\* use
C18_Witness ==
    /\ ~effectPending
    /\ selectedOption = "option9"
    /\ localStorage = Some("option9")
    /\ reportRequests # {}


(***************************************************************************)
(* C27                                                                     *)
(***************************************************************************)

\* C27: report rows are stored for display only from the answer to a request
\* that was issued for the report type selected when the answer arrives: the
\* answer to a request in flight when the type was switched is not displayed.
C27_DisplayedReportIsOfSelectedKind ==
    [][\A r \in reportRequests :
           (/\ ReportOk
            /\ reportRequests' = reportRequests \ {r}
            /\ reportData' # <<>>)
           => r.type = reportType']_vars


(***************************************************************************)
(* C29                                                                     *)
(***************************************************************************)

\* the keys of the JSON object JSON.stringify(params) writes: every key of
\* the parameters held (none of their values is undefined)
BodyKeys(params) == DOMAIN params

\* C29: the body POSTed to the inventory-report endpoint has no startDate and
\* no endDate; the two are sent only with revenue and cost reports.
C29_InventoryRequestHasNoDates ==
    \A r \in reportRequests :
        r.type = "inventory" =>
            /\ "startDate" \notin BodyKeys(r.params)
            /\ "endDate" \notin BodyKeys(r.params)

=============================================================================
